---- MODULE Spec2Model ----
(***************************************************************************)
(* Account bootstrap of the ACME client: Directory::account and            *)
(* Directory::new_nonce (src/src/dir.rs) driven through retry_call and     *)
(* expect_header (src/src/util.rs), against a nondeterministic authority   *)
(* (new-nonce and new-account endpoints) and a key-value persistence.      *)
(***************************************************************************)
EXTENDS Integers, Sequences, FiniteSets, TLC

(* ------------------------------ bounds --------------------------------- *)

\* number of Directory::account calls made in one behaviour
MaxCalls == 2

(* ------------------------- program constants --------------------------- *)

\* util.rs:65  `i == 3`
MaxAttempts == 3
\* util.rs:65  `res.status() == 400`
BadRequest == 400

(* ------------------------------ inputs --------------------------------- *)

\* threads that may call Directory::account
Procs == {1, 2}
\* the thread of a single-threaded caller (the tests of dir.rs)
SeqProcs == {1}

\* contact emails, the two of test_persisted_acount
Contacts == {"foo@bar.com", "karlfoo@bar.com"}

\* HTTP statuses the authority answers with
Statuses == {200, 201, 400, 404, 500}
\* statuses with which the authority accepts a request
SuccessStatuses == {200, 201}

\* values the authority puts in a location header
Locations == {"acct/1", "acct/2"}

\* response bodies: one that decodes to an account record, one that does not
JsonBody == "{\"status\":\"valid\"}"
Bodies == {JsonBody, "<html>oops</html>"}

(* --------------------------- Option / Result --------------------------- *)

None == <<>>
Some(x) == <<x>>

Ok(v) == [ok |-> TRUE, val |-> v]
Err(kind, msg) == [ok |-> FALSE, kind |-> kind, msg |-> msg]

(* ------------------------------ AcmeKey -------------------------------- *)

\* util.rs:99  AcmeKey(pri_key, None)
from_key(pri_key) == [pri |-> pri_key, kid |-> None]

\* util.rs:88  a freshly generated P-256 key; `fresh` is the key drawn
AcmeKey_new(fresh) == from_key(fresh)

\* PEM bytes are [form, der]: what EcKey::private_key_from_pem does with them,
\* whatever their labels and encodings. form says how the decoder gets at their
\* content: "sec1", the bytes to_pem writes for a key; "plain", any other bytes
\* the decoder reads without asking for anything; "encrypted", bytes under a
\* pass phrase, which the decoder asks for. der says what the content is: the
\* number of the EC private key the decoder finds there, 1, 2, .., or 0 when it
\* finds none (a broken body, a key that is not EC, bytes that are no PEM).
PemForms == {"sec1", "plain", "encrypted"}

\* util.rs:103  the PEM text of the private key only; the key id is dropped
to_pem(key) == [form |-> "sec1", der |-> key.pri]

\* util.rs:95  private_key_from_pem is given no pass-phrase callback: for bytes
\* under a pass phrase openssl asks, and waits for the phrase, when the process
\* has an input to read it from (a terminal, an open standard input); with none
\* it gives up at once
asks(pem, input) == pem.form = "encrypted" /\ input

\* util.rs:95  EcKey::private_key_from_pem reads a key from the bytes; `typed`:
\* the right pass phrase was given at the prompt (FALSE when a wrong one was,
\* or nothing was asked, or there was no input to ask on)
decodes(pem, typed) ==
    /\ pem.der >= 1
    /\ pem.form = "encrypted" => typed

\* util.rs:93-97  the key of the PEM bytes, without key id; bytes no private
\* key is read from are an error
from_pem(pem, typed) ==
    IF decodes(pem, typed)
    THEN Ok(from_key(pem.der))
    ELSE Err("Other", [text |-> "Failed to read PEM"])

\* a mutant of set_key_id: the key id is not stored
set_key_id_noop(key, kid) == key

\* util.rs:115
set_key_id(key, kid) == [key EXCEPT !.kid = Some(kid)]

(* ----------------------------- responses ------------------------------- *)

\* a ureq::Response: status, the two headers the code reads, body
Response(status, nonce, location, body) ==
    [status |-> status, nonce |-> nonce, location |-> location, body |-> body]

\* res.header(name)
header(res, name) ==
    IF name = "replay-nonce" THEN res.nonce
    ELSE IF name = "location" THEN res.location
    ELSE None

\* a mutant of ok: the upper end of the success range is not checked
ok_no_upper(status) == status >= 200

\* res.ok(): status in 200..=299
ok(status) == status >= 200 /\ status <= 299

\* util.rs:30  the body as text (the body is taken to arrive whole)
safe_read_string(res) == res.body

\* util.rs:24  decode the body as JSON
read_json(res) ==
    IF safe_read_string(res) = JsonBody
    THEN Ok([status |-> "valid"])
    ELSE Err("Json", [text |-> "expected value"])

\* a mutant of expect_header: a missing header yields an empty default
expect_header_default(res, name) ==
    IF header(res, name) # None THEN Ok(header(res, name)[1]) ELSE Ok("")

\* util.rs:78
expect_header(res, name) ==
    IF header(res, name) # None
    THEN Ok(header(res, name)[1])
    ELSE Err("Other", [text |-> "Missing header", name |-> name])

(* ----------------------------- retry_call ------------------------------ *)

\* util.rs:69  format!("Call failed ({}): {}", status, res_body)
CallMsg(status, res_body) ==
    [text |-> "Call failed", status |-> status, body |-> res_body]

\* a mutant of NoMoreRetries: a status 400 is retried like any other failure
NoMoreRetries_retry400(i, status) == i = MaxAttempts

\* a mutant of NoMoreRetries: one attempt more before giving up
NoMoreRetries_four(i, status) == i = MaxAttempts + 1 \/ status = BadRequest

\* a mutant of NoMoreRetries: every failure is final
NoMoreRetries_never(i, status) == TRUE

\* a mutant of NoMoreRetries: every 4xx status is final
NoMoreRetries_4xx(i, status) == i = MaxAttempts \/ (status >= 400 /\ status <= 499)

\* util.rs:65  `i == 3 || res.status() == 400`
NoMoreRetries(i, status) == i = MaxAttempts \/ status = BadRequest

\* a mutant of retry_call: when the attempts are used up the last response is
\* returned as if it were a success
retry_call_returns_last(i, res) ==
    IF ok(res.status) \/ NoMoreRetries(i, res.status)
    THEN [next |-> "return", out |-> Ok(res)]
    ELSE [next |-> "retry", out |-> Err("Retry", [text |-> "Retry call"])]

\* util.rs:60-75  what retry_call does with the response to its i-th request:
\* return it, fail with a Call error, or go round the loop again
retry_call(i, res) ==
    IF ok(res.status)
    THEN [next |-> "return", out |-> Ok(res)]
    ELSE IF NoMoreRetries(i, res.status)
    THEN [next |-> "return",
          out |-> Err("Call", CallMsg(res.status, safe_read_string(res)))]
    ELSE [next |-> "retry", out |-> Err("Retry", [text |-> "Retry call"])]

(* ----------------------------- persistence ----------------------------- *)

\* a mutant of pem_key: the contact is left out of the handle
pem_key_shared(contact_email) ==
    [realm |-> "", kind |-> "PrivateKey", key |-> "acme_account"]

\* dir.rs:60  PersistKey::new(&contact_email, PersistKind::PrivateKey, "acme_account")
pem_key(contact_email) ==
    [realm |-> contact_email, kind |-> "PrivateKey", key |-> "acme_account"]

\* the handles Directory::account addresses
Handles == {pem_key(c) : c \in Contacts}

\* Persist::get: the bytes stored under the handle, if any, or a failure
persist_get(st, k, getOk) ==
    IF getOk THEN Ok(st[k]) ELSE Err("Persist", [text |-> "get failed"])

\* Persist::put: the store after a put that succeeds
persist_put(st, k, bytes) == [st EXCEPT ![k] = Some(bytes)]

(* ------------------------------ signing -------------------------------- *)

\* the directory document held by Directory (self.1)
ApiDirectory == [newNonce |-> "https://ca/new-nonce",
                 newAccount |-> "https://ca/new-account"]

\* dir.rs:79  the registration payload
ApiAccount(contact_email) ==
    [contact |-> <<<<"mailto:", contact_email>>>>, termsOfServiceAgreed |-> Some(TRUE)]

\* jwt::make_jws_jwk: the signed envelope; the protected header names the key by
\* its public key while the key has no key id, by its key id afterwards
make_jws_jwk(url, nonce, key, payload) ==
    [nonce |-> nonce, url |-> url,
     form |-> IF key.kid = None THEN "jwk" ELSE "kid",
     jwk |-> IF key.kid = None THEN Some(key.pri) ELSE None,
     kid |-> key.kid,
     payload |-> payload,
     signer |-> key.pri]

(* ----------------------------- directory ------------------------------- *)

\* dir.rs:9-10
LETSENCRYPT == "https://acme-v02.api.letsencrypt.org/directory"
LETSENCRYPT_STAGING == "https://acme-staging-v02.api.letsencrypt.org/directory"

\* dir.rs:14-23  DirectoryUrl
LetsEncrypt == [tag |-> "LetsEncrypt", url |-> ""]
LetsEncryptStaging == [tag |-> "LetsEncryptStaging", url |-> ""]
Other(u) == [tag |-> "Other", url |-> u]

DirectoryUrls == {LetsEncrypt, LetsEncryptStaging, Other("http://localhost/directory")}

\* dir.rs:26-32
to_url(url) ==
    IF url.tag = "LetsEncrypt" THEN LETSENCRYPT
    ELSE IF url.tag = "LetsEncryptStaging" THEN LETSENCRYPT_STAGING
    ELSE url.url

\* dir.rs:37  Directory(persist, api_dir); the persistence is the variable store
Directory(api_dir) == [api_dir |-> api_dir]

\* bodies of responses to the GET of the directory: the directory document, a
\* JSON document of another shape, and text that is no JSON
DirBody == "{\"newNonce\":..,\"newAccount\":..}"
DirBodies == {DirBody, JsonBody, "<html>oops</html>"}

\* util.rs:24 at dir.rs:44  decode the body as an ApiDirectory
read_json_dir(res) ==
    IF safe_read_string(res) = DirBody
    THEN Ok(ApiDirectory)
    ELSE Err("Json", [text |-> "expected value"])

\* a mutant of from_url_finish: a body that does not decode yields a default
\* directory
from_url_finish_or_default(out) ==
    IF ~out.ok THEN out ELSE Ok(Directory(ApiDirectory))

\* dir.rs:43-45  from what retry_call returned to what from_url returns
from_url_finish(out) ==
    IF ~out.ok THEN out
    ELSE LET api_dir == read_json_dir(out.val)
         IN  IF api_dir.ok THEN Ok(Directory(api_dir.val)) ELSE api_dir

(* ------------------------------- state --------------------------------- *)

VARIABLES
    store,          \* persistence: handle -> None or Some(PEM)
    keyCtr,         \* private keys generated so far; key n is the n-th generated
    acked,          \* keys whose new-account POST the authority answered with success
    generatedFor,   \* <<key, contact>>: the call that generated the key was for contact
    calls,          \* Directory::account calls started
    returned,       \* what the finished calls returned, in order
    pc,             \* per thread: idle, new_nonce, post, put, done
    call_id,        \* per thread: the number of the running call
    contact,        \* per thread: contact_email of the running call
    is_new,         \* per thread: dir.rs:63
    acme_key,       \* per thread: dir.rs:65
    i_account,      \* per thread: `i` of the retry_call of dir.rs:84
    i_nonce,        \* per thread: `i` of the retry_call of dir.rs:117
    req,            \* per thread: the request built by the closure of dir.rs:84
    lastRes,        \* per thread: the last response the call received
    builds,         \* per thread: invocations of the closure of dir.rs:84
    heads,          \* per thread: requests sent to new-nonce by the call
    nonces,         \* per thread: nonces the authority handed to the call
    posts,          \* per thread: requests sent to new-account by the call
    puts,           \* per thread: puts made by the call
    result,         \* per thread: what the call returns
    reads,          \* gets made on persistence
    got_pem,        \* per thread: dir.rs:64, the bytes from_pem waits on at the prompt
    dir_url,        \* Directory::from_url: the url fetched
    dir_pc,         \* Directory::from_url: fetch, done; built once a Directory exists
    i_dir,          \* Directory::from_url: `i` of the retry_call of dir.rs:43
    dir_gets,       \* Directory::from_url: the GETs sent and their responses
    dir_result      \* Directory::from_url: what it returns

vars == <<store, keyCtr, acked, generatedFor, calls, returned, pc,
          call_id, contact, is_new, acme_key, i_account, i_nonce, req, lastRes, builds,
          heads, nonces, posts, puts, result, reads, got_pem, dir_url, dir_pc,
          i_dir, dir_gets, dir_result>>

\* the state of Directory::from_url
dirVars == <<dir_url, dir_pc, i_dir, dir_gets, dir_result>>

NoContact == ""
NoKey == from_key(0)

\* no call of Directory::account has been made
InitAccounts ==
    /\ store = [h \in Handles |-> None]
    /\ keyCtr = 0
    /\ acked = {}
    /\ generatedFor = {}
    /\ calls = 0
    /\ returned = <<>>
    /\ pc = [p \in Procs |-> "idle"]
    /\ call_id = [p \in Procs |-> 0]
    /\ contact = [p \in Procs |-> NoContact]
    /\ is_new = [p \in Procs |-> FALSE]
    /\ acme_key = [p \in Procs |-> NoKey]
    /\ i_account = [p \in Procs |-> 0]
    /\ i_nonce = [p \in Procs |-> 0]
    /\ req = [p \in Procs |-> None]
    /\ lastRes = [p \in Procs |-> None]
    /\ builds = [p \in Procs |-> 0]
    /\ heads = [p \in Procs |-> 0]
    /\ nonces = [p \in Procs |-> 0]
    /\ posts = [p \in Procs |-> <<>>]
    /\ puts = [p \in Procs |-> <<>>]
    /\ result = [p \in Procs |-> None]
    /\ reads = 0
    /\ got_pem = [p \in Procs |-> None]

\* dir.rs:139-140, 148-149  a Directory has been built over an empty persistence
Init ==
    /\ InitAccounts
    /\ dir_url = to_url(Other("http://localhost/directory"))
    /\ dir_pc = "built"
    /\ i_dir = 0
    /\ dir_gets = <<>>
    /\ dir_result = Some(Ok(Directory(ApiDirectory)))

(* -------------------------- Directory::account ------------------------- *)

\* a mutant of load_or_create: the persisted key is ignored
load_or_create_always_new(pem, fresh, typed) ==
    Ok([key |-> AcmeKey_new(fresh), is_new |-> TRUE])

\* dir.rs:63-74  the key from a saved PEM, or a new one
load_or_create(pem, fresh, typed) ==
    IF pem # None
    THEN LET k == from_pem(pem[1], typed)
         IN  IF k.ok THEN Ok([key |-> k.val, is_new |-> FALSE]) ELSE k
    ELSE Ok([key |-> AcmeKey_new(fresh), is_new |-> TRUE])

\* a mutant of AttemptBuilder: the nonce of the first attempt is kept for the retries
AttemptBuilder_cached(p, nonce) ==
    [method |-> "POST", url |-> ApiDirectory.newAccount,
     content_type |-> "application/jose+json",
     body |-> make_jws_jwk(ApiDirectory.newAccount,
                           IF posts[p] # <<>> THEN posts[p][1].nonce ELSE nonce,
                           acme_key[p], ApiAccount(contact[p]))]

\* dir.rs:86-91  the closure handed to retry_call, once it has its nonce
AttemptBuilder(p, nonce) ==
    [method |-> "POST", url |-> ApiDirectory.newAccount,
     content_type |-> "application/jose+json",
     body |-> make_jws_jwk(ApiDirectory.newAccount, nonce, acme_key[p],
                           ApiAccount(contact[p]))]

\* Account::new
Account_new(contact_email, key, api_account) ==
    [contact |-> contact_email, acme_key |-> key, api_account |-> api_account]

\* a mutant of account_finish: the key is saved whether it is new or not
account_finish_always_put(key, isNew, contact_email, res) ==
    LET kid == expect_header(res, "location")
        api_account == read_json(res)
    IN  IF ~kid.ok THEN [pc |-> "done", key |-> key, result |-> kid]
        ELSE IF ~api_account.ok
        THEN [pc |-> "done", key |-> key, result |-> api_account]
        ELSE LET k2 == set_key_id(key, kid.val)
             IN  [pc |-> "put", key |-> k2,
                  result |-> Ok(Account_new(contact_email, k2, api_account.val))]

\* a mutant of account_finish: the key is saved before the body is decoded
account_finish_put_first(key, isNew, contact_email, res) ==
    LET kid == expect_header(res, "location")
        api_account == read_json(res)
    IN  IF ~kid.ok THEN [pc |-> "done", key |-> key, result |-> kid]
        ELSE LET k2 == set_key_id(key, kid.val)
             IN  [pc |-> IF isNew THEN "put" ELSE "done", key |-> k2,
                  result |-> IF api_account.ok
                             THEN Ok(Account_new(contact_email, k2, api_account.val))
                             ELSE api_account]

\* dir.rs:93-112  after retry_call returned Ok(res): key id from the location
\* header, account record from the body, then on to the put (new key) or the return
account_finish(key, isNew, contact_email, res) ==
    LET kid == expect_header(res, "location")
        api_account == read_json(res)
    IN  IF ~kid.ok THEN [pc |-> "done", key |-> key, result |-> kid]
        ELSE IF ~api_account.ok
        THEN [pc |-> "done", key |-> key, result |-> api_account]
        ELSE LET k2 == set_key_id(key, kid.val)
             IN  [pc |-> IF isNew THEN "put" ELSE "done", key |-> k2,
                  result |-> Ok(Account_new(contact_email, k2, api_account.val))]

\* dir.rs:58-74  the call starts: persistence is read, the key loaded or generated
Account(p, c) ==
    /\ dir_result # None /\ dir_result[1].ok
    /\ pc[p] = "idle"
    /\ \E getOk \in BOOLEAN,
          input \in IF store[pem_key(c)] # None
                          /\ store[pem_key(c)][1].form = "encrypted"
                       THEN BOOLEAN ELSE {FALSE} :
         LET got == persist_get(store, pem_key(c), getOk)
             waits == got.ok /\ got.val # None /\ asks(got.val[1], input)
             loaded == IF got.ok THEN load_or_create(got.val, keyCtr + 1, FALSE)
                       ELSE got
             made == ~waits /\ loaded.ok /\ loaded.val.is_new
         IN  /\ calls' = calls + 1
             /\ call_id' = [call_id EXCEPT ![p] = calls + 1]
             /\ contact' = [contact EXCEPT ![p] = c]
             /\ keyCtr' = IF made THEN keyCtr + 1 ELSE keyCtr
             /\ generatedFor' = IF made THEN generatedFor \cup {<<keyCtr + 1, c>>}
                                ELSE generatedFor
             /\ IF waits
                THEN /\ pc' = [pc EXCEPT ![p] = "prompt"]
                     /\ got_pem' = [got_pem EXCEPT ![p] = got.val]
                     /\ UNCHANGED <<acme_key, is_new, builds, result>>
                ELSE IF loaded.ok
                THEN /\ acme_key' = [acme_key EXCEPT ![p] = loaded.val.key]
                     /\ is_new' = [is_new EXCEPT ![p] = loaded.val.is_new]
                     /\ pc' = [pc EXCEPT ![p] = "new_nonce"]
                     /\ builds' = [builds EXCEPT ![p] = 1]
                     /\ UNCHANGED <<result, got_pem>>
                ELSE /\ pc' = [pc EXCEPT ![p] = "done"]
                     /\ result' = [result EXCEPT ![p] = Some(loaded)]
                     /\ UNCHANGED <<acme_key, is_new, builds, got_pem>>
    /\ reads' = reads + 1
    /\ UNCHANGED <<store, acked, returned, i_account, i_nonce, req,
                   lastRes, heads, nonces, posts, puts, dirVars>>

\* dir.rs:68 with util.rs:95  a pass phrase is given at the prompt from_pem waits
\* at: the key is read and the call goes on, or the call fails
PassPhrase(p) ==
    /\ pc[p] = "prompt"
    /\ \E typed \in BOOLEAN :
         LET loaded == load_or_create(got_pem[p], keyCtr + 1, typed)
         IN  IF loaded.ok
             THEN /\ acme_key' = [acme_key EXCEPT ![p] = loaded.val.key]
                  /\ is_new' = [is_new EXCEPT ![p] = loaded.val.is_new]
                  /\ pc' = [pc EXCEPT ![p] = "new_nonce"]
                  /\ builds' = [builds EXCEPT ![p] = 1]
                  /\ result' = result
             ELSE /\ pc' = [pc EXCEPT ![p] = "done"]
                  /\ result' = [result EXCEPT ![p] = Some(loaded)]
                  /\ UNCHANGED <<acme_key, is_new, builds>>
    /\ got_pem' = [got_pem EXCEPT ![p] = None]
    /\ UNCHANGED <<store, keyCtr, acked, generatedFor, calls, returned, call_id,
                   contact, i_account, i_nonce, req, lastRes, heads, nonces,
                   posts, puts, reads, dirVars>>

\* the authority hands out a new nonce with every successful new-nonce response:
\* the n-th nonce handed to call c is the value <<c, n>>
FreshNonce(p) == <<call_id[p], nonces[p] + 1>>

\* a mutant of new_nonce: a response without the header yields an empty nonce
new_nonce_or_default(out) ==
    IF ~out.ok THEN out
    ELSE IF header(out.val, "replay-nonce") # None
    THEN expect_header(out.val, "replay-nonce")
    ELSE Ok(<<>>)

\* dir.rs:115-119  new_nonce, from what its retry_call returned
new_nonce(out) ==
    IF out.ok THEN expect_header(out.val, "replay-nonce") ELSE out

\* a mutant of call_builder: an error of the closure counts as a failed attempt
\* and the closure is invoked again
call_builder_retry(built) ==
    IF built.ok THEN [next |-> "send", out |-> built]
    ELSE [next |-> "retry", out |-> built]

\* util.rs:50  `let (mut req, body) = f()?;`: the request of the closure is sent,
\* an error of the closure is returned
call_builder(built) ==
    IF built.ok THEN [next |-> "send", out |-> built]
    ELSE [next |-> "return", out |-> built]

\* dir.rs:85,115-119 with util.rs:45-76  one HEAD to new-nonce and what follows
\* from its response: another HEAD, the failure of the call, or the signed request
NewNonce(p) ==
    /\ pc[p] = "new_nonce"
    /\ \E status \in Statuses, hasNonce \in BOOLEAN, signOk \in BOOLEAN :
         /\ hasNonce => status \in SuccessStatuses
         /\ ~signOk => hasNonce
         /\ LET res == Response(status,
                                IF hasNonce THEN Some(FreshNonce(p)) ELSE None,
                                None, "")
                i == i_nonce[p] + 1
                step == retry_call(i, res)
                nonce == new_nonce(step.out)
                built == IF ~nonce.ok THEN nonce
                         ELSE IF signOk THEN Ok(AttemptBuilder(p, nonce.val))
                         ELSE Err("Other", [text |-> "sign failed"])
                f == call_builder(built)
            IN  /\ heads' = [heads EXCEPT ![p] = @ + 1]
                /\ nonces' = [nonces EXCEPT ![p] = IF hasNonce THEN @ + 1 ELSE @]
                /\ lastRes' = [lastRes EXCEPT ![p] = Some([kind |-> "HEAD", res |-> res])]
                /\ IF step.next = "retry"
                   THEN /\ i_nonce' = [i_nonce EXCEPT ![p] = i]
                        /\ UNCHANGED <<pc, req, result, builds>>
                   ELSE /\ i_nonce' = [i_nonce EXCEPT ![p] = 0]
                        /\ IF f.next = "send"
                           THEN /\ req' = [req EXCEPT ![p] = Some(f.out.val)]
                                /\ pc' = [pc EXCEPT ![p] = "post"]
                                /\ UNCHANGED <<result, builds>>
                           ELSE IF f.next = "return"
                           THEN /\ pc' = [pc EXCEPT ![p] = "done"]
                                /\ result' = [result EXCEPT ![p] = Some(f.out)]
                                /\ UNCHANGED <<req, builds>>
                           ELSE /\ builds' = [builds EXCEPT ![p] = @ + 1]
                                /\ UNCHANGED <<pc, req, result>>
    /\ UNCHANGED <<store, keyCtr, acked, generatedFor, calls, returned, call_id,
                   contact, is_new, acme_key, i_account, posts, puts,
                   reads, got_pem, dirVars>>

\* util.rs:51-75 for the call of dir.rs:84, with dir.rs:93-98  the POST to
\* new-account and what follows from its response
NewAccount(p) ==
    /\ pc[p] = "post"
    /\ \E status \in Statuses, body \in Bodies,
          location \in {None} \cup {Some(l) : l \in Locations} :
         LET res == Response(status, None, location, body)
             sent == req[p][1].body
             i == i_account[p] + 1
             step == retry_call(i, res)
             fin == IF step.out.ok
                    THEN account_finish(acme_key[p], is_new[p], contact[p], step.out.val)
                    ELSE [pc |-> "done", key |-> acme_key[p], result |-> step.out]
         IN  /\ i_account' = [i_account EXCEPT ![p] = i]
             /\ posts' = [posts EXCEPT ![p] =
                            Append(@, [nonce |-> sent.nonce, form |-> sent.form,
                                       signer |-> sent.signer, status |-> status,
                                       registered |-> sent.signer \in acked])]
             /\ acked' = IF status \in SuccessStatuses
                         THEN acked \cup {sent.signer} ELSE acked
             /\ lastRes' = [lastRes EXCEPT ![p] = Some([kind |-> "POST", res |-> res])]
             /\ req' = [req EXCEPT ![p] = None]
             /\ IF step.next = "retry"
                THEN /\ pc' = [pc EXCEPT ![p] = "new_nonce"]
                     /\ builds' = [builds EXCEPT ![p] = @ + 1]
                     /\ UNCHANGED <<acme_key, result>>
                ELSE /\ pc' = [pc EXCEPT ![p] = fin.pc]
                     /\ acme_key' = [acme_key EXCEPT ![p] = fin.key]
                     /\ result' = [result EXCEPT ![p] = Some(fin.result)]
                     /\ builds' = builds
    /\ UNCHANGED <<store, keyCtr, generatedFor, calls, returned, call_id, contact,
                   is_new, i_nonce, heads, nonces, puts, reads, got_pem, dirVars>>

\* a mutant of Put: a key already saved for the contact is not overwritten
Put_unless_saved(p) ==
    /\ pc[p] = "put"
    /\ \E putOk \in BOOLEAN :
         LET pem == to_pem(acme_key[p])
         IN  /\ puts' = [puts EXCEPT ![p] =
                           Append(@, [handle |-> pem_key(contact[p]), pem |-> pem,
                                      ok |-> putOk])]
             /\ store' = IF putOk /\ store[pem_key(contact[p])] = None
                         THEN persist_put(store, pem_key(contact[p]), pem)
                         ELSE store
             /\ result' = IF putOk THEN result
                          ELSE [result EXCEPT ![p] =
                                  Some(Err("Persist", [text |-> "put failed"]))]
    /\ pc' = [pc EXCEPT ![p] = "done"]
    /\ UNCHANGED <<keyCtr, acked, generatedFor, calls, returned, call_id, contact,
                   is_new, acme_key, i_account, i_nonce, req, lastRes, builds,
                   heads, nonces, posts, reads, got_pem, dirVars>>

\* dir.rs:101-105  the new key is saved; a failed put is the result of the call
Put(p) ==
    /\ pc[p] = "put"
    /\ \E putOk \in BOOLEAN :
         LET pem == to_pem(acme_key[p])
         IN  /\ puts' = [puts EXCEPT ![p] =
                           Append(@, [handle |-> pem_key(contact[p]), pem |-> pem,
                                      ok |-> putOk])]
             /\ store' = IF putOk THEN persist_put(store, pem_key(contact[p]), pem)
                         ELSE store
             /\ result' = IF putOk THEN result
                          ELSE [result EXCEPT ![p] =
                                  Some(Err("Persist", [text |-> "put failed"]))]
    /\ pc' = [pc EXCEPT ![p] = "done"]
    /\ UNCHANGED <<keyCtr, acked, generatedFor, calls, returned, call_id, contact,
                   is_new, acme_key, i_account, i_nonce, req, lastRes, builds,
                   heads, nonces, posts, reads, got_pem, dirVars>>

\* the call returns to its caller and its locals are dropped
Return(p) ==
    /\ pc[p] = "done"
    /\ returned' = Append(returned,
                     [id |-> call_id[p], calls |-> calls,
                      contact |-> contact[p], ok |-> result[p][1].ok,
                      is_new |-> is_new[p],
                      pri |-> IF result[p][1].ok
                              THEN result[p][1].val.acme_key.pri ELSE 0])
    /\ pc' = [pc EXCEPT ![p] = "idle"]
    /\ call_id' = [call_id EXCEPT ![p] = 0]
    /\ contact' = [contact EXCEPT ![p] = NoContact]
    /\ is_new' = [is_new EXCEPT ![p] = FALSE]
    /\ acme_key' = [acme_key EXCEPT ![p] = NoKey]
    /\ i_account' = [i_account EXCEPT ![p] = 0]
    /\ i_nonce' = [i_nonce EXCEPT ![p] = 0]
    /\ req' = [req EXCEPT ![p] = None]
    /\ lastRes' = [lastRes EXCEPT ![p] = None]
    /\ builds' = [builds EXCEPT ![p] = 0]
    /\ heads' = [heads EXCEPT ![p] = 0]
    /\ nonces' = [nonces EXCEPT ![p] = 0]
    /\ posts' = [posts EXCEPT ![p] = <<>>]
    /\ puts' = [puts EXCEPT ![p] = <<>>]
    /\ result' = [result EXCEPT ![p] = None]
    /\ UNCHANGED <<store, keyCtr, acked, generatedFor, calls, reads, got_pem, dirVars>>

\* the variables of the calls of Directory::account
accountVars == <<store, keyCtr, acked, generatedFor, calls, returned, pc,
                 call_id, contact, is_new, acme_key, i_account, i_nonce, req,
                 lastRes, builds, heads, nonces, posts, puts, result, reads,
                 got_pem>>

\* dir.rs:41-46  one GET of the directory url and what follows from its response:
\* another GET, or the return of from_url
FromUrl ==
    /\ dir_pc = "fetch"
    /\ \E status \in Statuses, body \in DirBodies :
         LET res == Response(status, None, None, body)
             i == i_dir + 1
             step == retry_call(i, res)
         IN  /\ dir_gets' = Append(dir_gets, [url |-> dir_url, status |-> status,
                                              body |-> body])
             /\ IF step.next = "retry"
                THEN /\ i_dir' = i
                     /\ UNCHANGED <<dir_pc, dir_result>>
                ELSE /\ i_dir' = 0
                     /\ dir_pc' = "done"
                     /\ dir_result' = Some(from_url_finish(step.out))
    /\ UNCHANGED <<dir_url, accountVars>>

\* Directory::from_url is about to be called on one of the known urls
InitDir ==
    /\ InitAccounts
    /\ dir_url \in {to_url(u) : u \in DirectoryUrls}
    /\ dir_pc = "fetch"
    /\ i_dir = 0
    /\ dir_gets = <<>>
    /\ dir_result = None

NextDir == FromUrl

\* the fetch of the directory, on its own
SpecDir == InitDir /\ [][NextDir]_vars

\* a single thread makes the calls one after the other
Next ==
    \E p \in SeqProcs :
        \/ calls < MaxCalls /\ \E c \in Contacts : Account(p, c)
        \/ NewNonce(p)
        \/ NewAccount(p)
        \/ Put(p)
        \/ Return(p)

Spec == Init /\ [][Next]_vars

\* every request of a running call gets a response or times out, the put and the
\* return come back: a step of a call that can be taken is taken
Responsive ==
    \A p \in SeqProcs :
        WF_vars(NewNonce(p) \/ NewAccount(p) \/ Put(p) \/ Return(p))

\* spec 6: the PEM bytes a persistence may hold for a contact without a call
\* having put them: key 1, supplied from outside, in each of the forms, and
\* bytes that hold no EC private key, readable as they are or under a pass phrase
ExternalPems ==
    {[form |-> f, der |-> 1] : f \in PemForms}
        \cup {[form |-> f, der |-> 0] : f \in {"plain", "encrypted"}}

\* a Directory has been built over a persistence that may hold a key supplied
\* from outside for any of the contacts; key 1 is that key, generated elsewhere
InitStored ==
    /\ store \in [Handles -> {None} \cup {Some(x) : x \in ExternalPems}]
    /\ keyCtr = 1
    /\ acked = {}
    /\ generatedFor = {}
    /\ calls = 0
    /\ returned = <<>>
    /\ pc = [p \in Procs |-> "idle"]
    /\ call_id = [p \in Procs |-> 0]
    /\ contact = [p \in Procs |-> NoContact]
    /\ is_new = [p \in Procs |-> FALSE]
    /\ acme_key = [p \in Procs |-> NoKey]
    /\ i_account = [p \in Procs |-> 0]
    /\ i_nonce = [p \in Procs |-> 0]
    /\ req = [p \in Procs |-> None]
    /\ lastRes = [p \in Procs |-> None]
    /\ builds = [p \in Procs |-> 0]
    /\ heads = [p \in Procs |-> 0]
    /\ nonces = [p \in Procs |-> 0]
    /\ posts = [p \in Procs |-> <<>>]
    /\ puts = [p \in Procs |-> <<>>]
    /\ result = [p \in Procs |-> None]
    /\ reads = 0
    /\ got_pem = [p \in Procs |-> None]
    /\ dir_url = to_url(Other("http://localhost/directory"))
    /\ dir_pc = "built"
    /\ i_dir = 0
    /\ dir_gets = <<>>
    /\ dir_result = Some(Ok(Directory(ApiDirectory)))

\* the steps of Next and the pass phrase typed at the prompt, which Next leaves
\* out because no call of Spec comes to wait there
NextStored ==
    \/ Next
    \/ \E p \in SeqProcs : PassPhrase(p)

\* a single thread makes the calls over a persistence that may hold outside keys
SpecStored == InitStored /\ [][NextStored]_vars

\* the calls of SpecStored against an authority and a persistence that always
\* answer; nothing makes anyone type at the prompt
FairSpec == SpecStored /\ Responsive

(* --------------------------- concurrent calls -------------------------- *)

\* the concurrent calls are two that race and those of Spec that follow
MaxConcCalls == MaxCalls + 1

\* what the authority answers to the new-account requests of the concurrent
\* calls: the account is created, or the request is refused
ConcStatuses == {201, BadRequest}

\* dir.rs:58-74 where persistence can be read and the saved PEM is a key
AccountConc(p, c) ==
    /\ Account(p, c)
    /\ pc'[p] = "new_nonce"

\* dir.rs:85-87 where the first new-nonce request is answered with a nonce and
\* the signing succeeds
NewNonceConc(p) ==
    /\ NewNonce(p)
    /\ pc'[p] = "post"
    /\ lastRes'[p][1].res.status = 200

\* dir.rs:84-98 where the authority answers with one of ConcStatuses, an account
\* record and the location of the account
NewAccountConc(p) ==
    /\ NewAccount(p)
    /\ LET res == lastRes'[p][1].res
       IN  /\ res.status \in ConcStatuses
           /\ res.body = JsonBody
           /\ res.location = Some("acct/1")

\* two threads call Directory::account on one Directory and one persistence,
\* their network and persistence steps interleaved in any order
NextConc ==
    \E p \in Procs :
        \/ calls < MaxConcCalls /\ \E c \in Contacts : AccountConc(p, c)
        \/ NewNonceConc(p)
        \/ NewAccountConc(p)
        \/ Put(p)
        \/ Return(p)

SpecConc == Init /\ [][NextConc]_vars

(* ------------------------------ properties ----------------------------- *)

\* the statuses after which retry_call is meant to try again
Transient(status) == status \notin SuccessStatuses /\ status # BadRequest

\* the call of thread p has returned
Returned(p) == pc[p] = "done"

\* the error expect_header gives for a missing header
MissingHeader(name) == Err("Other", [text |-> "Missing header", name |-> name])

\* the last response the call of p received came from the given endpoint
LastFrom(p, kind) == lastRes[p] # None /\ lastRes[p][1].kind = kind

\* C1: within one call of Directory::account no nonce is carried by two POSTs to
\* new-account, and the request about to be posted carries the nonce of the
\* new-nonce response just received, that is, one fetched inside the same attempt.
C1_FreshNoncePerAttempt ==
    \A p \in Procs :
        /\ \A a, b \in 1..Len(posts[p]) :
               a # b => posts[p][a].nonce # posts[p][b].nonce
        /\ pc[p] = "post" =>
               /\ LastFrom(p, "HEAD")
               /\ lastRes[p][1].res.nonce = Some(req[p][1].body.nonce)
               /\ \A a \in 1..Len(posts[p]) :
                      posts[p][a].nonce # req[p][1].body.nonce

\* C1 witness: a call has sent its third POST, after two retries
C1_Witness ==
    \E p \in Procs : Len(posts[p]) = 3 /\ builds[p] = 3

\* C2: when three POSTs in a row are answered with a transient failure, the call
\* has failed after the third (there is never a fourth POST) and its error is the
\* Call error made of the status and body of the third response.
C2_ThreeTransientFailures ==
    \A p \in Procs :
        /\ Len(posts[p]) <= MaxAttempts
        /\ (Len(posts[p]) = MaxAttempts /\ Transient(posts[p][MaxAttempts].status)) =>
               /\ \A k \in 1..MaxAttempts : Transient(posts[p][k].status)
               /\ Returned(p)
               /\ LastFrom(p, "POST")
               /\ lastRes[p][1].res.status = posts[p][MaxAttempts].status
               /\ result[p] = Some(Err("Call",
                                 CallMsg(lastRes[p][1].res.status,
                                         lastRes[p][1].res.body)))

\* C2 witness: a call failed on its third POST, whose status differs from the first
C2_Witness ==
    \E p \in Procs :
        /\ Returned(p) /\ Len(posts[p]) = 3
        /\ posts[p][1].status = 404 /\ posts[p][3].status = 500
        /\ ~result[p][1].ok

\* C3: a POST answered with status 400 is the last request of the call, at any
\* attempt: the call has failed with the Call error of status 400 and the body of
\* that response, and no POST or new-nonce request follows it.
C3_BadRequestIsTerminal ==
    \A p \in Procs :
        /\ \A k \in 1..Len(posts[p]) :
               posts[p][k].status = BadRequest => k = Len(posts[p])
        /\ (posts[p] # <<>> /\ posts[p][Len(posts[p])].status = BadRequest) =>
               /\ Returned(p)
               /\ LastFrom(p, "POST")
               /\ lastRes[p][1].res.status = BadRequest
               /\ builds[p] = Len(posts[p])
               /\ result[p] = Some(Err("Call",
                                 CallMsg(BadRequest, lastRes[p][1].res.body)))

\* C3 witness: a call failed on a 400 at its second attempt, one attempt unused
C3_Witness ==
    \E p \in Procs :
        /\ Returned(p) /\ Len(posts[p]) = 2
        /\ posts[p][2].status = BadRequest
        /\ ~result[p][1].ok

\* the last POST of the call of p was answered with success, a location header
\* and a body that decodes, and every POST before it with a transient failure
RecoveredAfterRetry(p) ==
    /\ Len(posts[p]) >= 2
    /\ posts[p][Len(posts[p])].status \in SuccessStatuses
    /\ \A k \in 1..(Len(posts[p]) - 1) : Transient(posts[p][k].status)
    /\ LastFrom(p, "POST")
    /\ lastRes[p][1].res.location # None
    /\ lastRes[p][1].res.body = JsonBody

\* C4 as stated: a success on attempt 2 or 3 that follows only transient failures
\* makes the call succeed.
C4_RetryRecovers_AsStated ==
    \A p \in Procs :
        (Returned(p) /\ RecoveredAfterRetry(p)) => result[p][1].ok

\* C4 amended: a transient failure on attempt 1 or 2 never ends the call, and a
\* success on attempt 2 or 3 that follows only transient failures makes the call
\* succeed with the account of the contact and key, unless the key is new and its
\* put to persistence fails; then the call fails with the error of the put.
C4_RetryRecovers ==
    \A p \in Procs :
        /\ (Returned(p) /\ LastFrom(p, "POST")
               /\ Transient(lastRes[p][1].res.status)) =>
               Len(posts[p]) = MaxAttempts
        /\ RecoveredAfterRetry(p) => pc[p] \in {"put", "done"}
        /\ (Returned(p) /\ RecoveredAfterRetry(p)) =>
               IF puts[p] = <<>> \/ puts[p][1].ok
               THEN /\ result[p][1].ok
                    /\ result[p][1].val.contact = contact[p]
                    /\ result[p][1].val.acme_key.pri = posts[p][1].signer
               ELSE /\ is_new[p]
                    /\ result[p] = Some(Err("Persist", [text |-> "put failed"]))

\* C4 witness: a call succeeded on its second POST after a transient failure
C4_Witness ==
    \E p \in Procs :
        /\ Returned(p) /\ RecoveredAfterRetry(p)
        /\ Len(posts[p]) = 2 /\ posts[p][1].status = 500
        /\ result[p][1].ok

\* the error of a put that failed
PutFailed(r) == ~r.ok /\ r.kind = "Persist" /\ r.msg.text = "put failed"

\* C5: a call that returns an error of any stage before the put (read of
\* persistence, nonce fetch, new-account call, location header, body) has made no
\* put; a put is made only by a call that generated its key and whose last POST got
\* a success response with a location header and a body that decodes.
C5_NoPutOnFailure ==
    \A p \in Procs :
        /\ (Returned(p) /\ ~result[p][1].ok /\ ~PutFailed(result[p][1])) =>
               puts[p] = <<>>
        /\ (Returned(p) /\ ~result[p][1].ok) => store[pem_key(contact[p])] = None
                                                \/ ~is_new[p]
        /\ (pc[p] = "put" \/ puts[p] # <<>>) =>
               /\ is_new[p]
               /\ posts[p] # <<>>
               /\ posts[p][Len(posts[p])].status \in SuccessStatuses
               /\ LastFrom(p, "POST")
               /\ lastRes[p][1].res.location # None
               /\ lastRes[p][1].res.body = JsonBody
               /\ acme_key[p].kid = lastRes[p][1].res.location
               /\ Len(puts[p]) <= 1

\* C5 witness: a call with a new key failed on an undecodable body, without a put
C5_Witness ==
    \E p \in Procs :
        /\ Returned(p) /\ is_new[p] /\ ~result[p][1].ok
        /\ result[p][1].kind = "Json"
        /\ lastRes[p][1].res.location # None
        /\ puts[p] = <<>>

\* C6: every key held in the store is a key the authority has acknowledged, and
\* every put of a call saves the key that signed the call's last POST, which the
\* authority answered with success.
C6_PersistedKeyAcknowledged ==
    /\ \A h \in Handles :
           store[h] # None =>
               /\ from_pem(store[h][1], FALSE).ok
               /\ from_pem(store[h][1], FALSE).val.pri \in acked
    /\ \A p \in Procs :
           \A k \in 1..Len(puts[p]) :
               /\ posts[p] # <<>>
               /\ posts[p][Len(posts[p])].status \in SuccessStatuses
               /\ from_pem(puts[p][k].pem, FALSE).val.pri = posts[p][Len(posts[p])].signer
               /\ posts[p][Len(posts[p])].signer \in acked

\* C6 witness: a call has saved its key
C6_Witness ==
    \E p \in Procs :
        /\ Returned(p) /\ Len(puts[p]) = 1 /\ puts[p][1].ok
        /\ store[pem_key(contact[p])] = Some(to_pem(acme_key[p]))

\* C7: of two calls for the same contact that both succeed, the later returns the
\* private key of the earlier and has generated none; the first such call
\* generated its key and the store holds it under the contact's handle.
C7_SameContactSameKey ==
    \A b \in 1..Len(returned) :
        returned[b].ok =>
            /\ store[pem_key(returned[b].contact)] =
                   Some(to_pem(from_key(returned[b].pri)))
            /\ \A a \in 1..(b - 1) :
                   (returned[a].ok /\ returned[a].contact = returned[b].contact) =>
                       /\ returned[a].pri = returned[b].pri
                       /\ ~returned[b].is_new
            /\ (\A a \in 1..(b - 1) :
                   ~(returned[a].ok /\ returned[a].contact = returned[b].contact)) =>
                   returned[b].is_new

\* C7 witness: two calls in succession for one contact have both succeeded
C7_Witness ==
    /\ Len(returned) = 2
    /\ returned[1].ok /\ returned[2].ok
    /\ returned[1].contact = returned[2].contact
    /\ returned[1].is_new /\ ~returned[2].is_new
    /\ keyCtr = 1

\* C8: calls for two different contacts return two different private keys; the
\* key a call works with, and the key held under a contact's handle, was generated
\* by a call for that same contact.
C8_DistinctContactsDistinctKeys ==
    /\ \A a, b \in 1..Len(returned) :
           (returned[a].ok /\ returned[b].ok
               /\ returned[a].contact # returned[b].contact) =>
               returned[a].pri # returned[b].pri
    /\ \A a \in 1..Len(returned) :
           returned[a].ok => <<returned[a].pri, returned[a].contact>> \in generatedFor
    /\ \A p \in Procs :
           pc[p] \in {"new_nonce", "post", "put"} =>
               <<acme_key[p].pri, contact[p]>> \in generatedFor
    /\ \A c \in Contacts :
           store[pem_key(c)] # None =>
               <<from_pem(store[pem_key(c)][1], FALSE).val.pri, c>> \in generatedFor

\* C8 witness: two calls for different contacts have both succeeded
C8_Witness ==
    /\ Len(returned) = 2
    /\ returned[1].ok /\ returned[2].ok
    /\ returned[1].contact # returned[2].contact
    /\ returned[1].pri # returned[2].pri

\* C9: when a new-nonce response has a success status and no replay-nonce header,
\* the call has failed with the missing-header error for replay-nonce: the attempt
\* under way has built and posted no request.
C9_MissingNonceHeader ==
    \A p \in Procs :
        (/\ LastFrom(p, "HEAD")
         /\ lastRes[p][1].res.status \in SuccessStatuses
         /\ lastRes[p][1].res.nonce = None) =>
            /\ Returned(p)
            /\ result[p] = Some(MissingHeader("replay-nonce"))
            /\ req[p] = None
            /\ Len(posts[p]) = builds[p] - 1

\* C9 witness: a call failed on a new-nonce response without the header, in a retry
C9_Witness ==
    \E p \in Procs :
        /\ Returned(p) /\ LastFrom(p, "HEAD")
        /\ lastRes[p][1].res.status = 200 /\ lastRes[p][1].res.nonce = None
        /\ builds[p] = 2 /\ Len(posts[p]) = 1

\* C10: when a POST to new-account is answered with a success status and no
\* location header, the call has failed with the missing-header error for
\* location: no retry, no key id on the key, no put, no account returned.
C10_MissingLocationHeader ==
    \A p \in Procs :
        (/\ LastFrom(p, "POST")
         /\ lastRes[p][1].res.status \in SuccessStatuses
         /\ lastRes[p][1].res.location = None) =>
            /\ Returned(p)
            /\ result[p] = Some(MissingHeader("location"))
            /\ acme_key[p].kid = None
            /\ puts[p] = <<>>
            /\ builds[p] = Len(posts[p])
            /\ store[pem_key(contact[p])] = None \/ ~is_new[p]

\* C10 witness: a call with a new key failed on a 201 without location header
C10_Witness ==
    \E p \in Procs :
        /\ Returned(p) /\ LastFrom(p, "POST") /\ is_new[p]
        /\ lastRes[p][1].res.status = 201 /\ lastRes[p][1].res.location = None
        /\ lastRes[p][1].res.body = JsonBody
        /\ ~result[p][1].ok

\* C11 as stated: every POST signed with a key that the authority had already
\* acknowledged when the POST was sent is in key-id form.
C11_KidFormAfterRegistration_AsStated ==
    \A p \in Procs :
        \A k \in 1..Len(posts[p]) :
            posts[p][k].registered => posts[p][k].form = "kid"

\* C11 amended: a request signed with the key of a call is in key-id form exactly
\* when that key carries a key id, which is so only once the call has passed its
\* last POST; every new-account POST is in raw-public-key form, also the POST of a
\* later call that loaded a key an earlier call registered (the key id is not
\* persisted).
C11_KidFormAfterRegistration ==
    \A p \in Procs :
        /\ \A k \in 1..Len(posts[p]) : posts[p][k].form = "jwk"
        /\ pc[p] = "post" => req[p][1].body.form = "jwk" /\ req[p][1].body.kid = None
        /\ (Returned(p) /\ result[p][1].ok) =>
               LET env == make_jws_jwk(ApiDirectory.newAccount, FreshNonce(p),
                                       result[p][1].val.acme_key, ApiAccount(contact[p]))
               IN  /\ env.form = "kid"
                   /\ env.jwk = None
                   /\ env.kid = lastRes[p][1].res.location

\* C11 witness: a call that loaded a registered key has posted in public-key form
\* and returned its account
C11_Witness ==
    \E p \in Procs :
        /\ Returned(p) /\ result[p][1].ok /\ ~is_new[p]
        /\ posts[p][1].registered /\ posts[p][1].form = "jwk"

\* the key of the call of p is registered: it carries a key id
Registered(p) == acme_key[p].kid # None

\* C12: within one call the key only moves forward: it has no key id while the
\* call fetches nonces and posts (every envelope is in public-key form), the key
\* id it gets is the location header of a success response, a put comes only
\* after that, and a key id once set stays as it is until the call returns.
C12_KeyMovesForward ==
    /\ [](\A p \in Procs :
            /\ pc[p] \in {"new_nonce", "post"} => ~Registered(p)
            /\ \A k \in 1..Len(posts[p]) :
                   posts[p][k].form = "jwk" /\ posts[p][k].signer = acme_key[p].pri
            /\ Registered(p) =>
                   /\ pc[p] \in {"put", "done"}
                   /\ LastFrom(p, "POST")
                   /\ lastRes[p][1].res.status \in SuccessStatuses
                   /\ lastRes[p][1].res.location = acme_key[p].kid
            /\ (pc[p] = "put" \/ puts[p] # <<>>) => Registered(p))
    /\ [][\A p \in Procs :
            (Registered(p) /\ pc'[p] # "idle") => acme_key'[p] = acme_key[p]]_vars

\* C12 witness: a call has registered its new key and saved it
C12_Witness ==
    \E p \in Procs :
        /\ Returned(p) /\ Registered(p) /\ is_new[p]
        /\ Len(posts[p]) = 2
        /\ Len(puts[p]) = 1 /\ puts[p][1].ok

\* C13: a call that returns an account, with a loaded key as with a new one, has
\* sent a new-account POST signed with the returned key and got a success response
\* to it, the last response of the call, and the key id of the returned account is
\* the location header of that response.
C13_AccountFromSuccessResponse ==
    \A p \in Procs :
        (Returned(p) /\ result[p][1].ok) =>
            /\ posts[p] # <<>>
            /\ posts[p][Len(posts[p])].status \in SuccessStatuses
            /\ posts[p][Len(posts[p])].signer = result[p][1].val.acme_key.pri
            /\ \A k \in 1..(Len(posts[p]) - 1) : Transient(posts[p][k].status)
            /\ LastFrom(p, "POST")
            /\ lastRes[p][1].res.status = posts[p][Len(posts[p])].status
            /\ lastRes[p][1].res.location # None
            /\ result[p][1].val.acme_key.kid = lastRes[p][1].res.location
            /\ result[p][1].val.acme_key = acme_key[p]
            /\ result[p][1].val.api_account = read_json(lastRes[p][1].res).val

\* C13 witness: a call with a loaded key returned its account after one failed POST
C13_Witness ==
    \E p \in Procs :
        /\ Returned(p) /\ result[p][1].ok /\ ~is_new[p]
        /\ Len(posts[p]) = 2 /\ posts[p][1].status = 500
        /\ result[p][1].val.acme_key.kid = Some("acct/2")

\* the call of p found a persisted key for its contact
LoadedKey(p) == pc[p] # "idle" /\ ~is_new[p] /\ acme_key[p] # NoKey

\* C14: a call that found a persisted key makes no put and no step of it changes
\* the store; no step of any call removes an entry, and a step that changes the
\* store is the put of a call with a new key, under the handle of its own contact.
C14_LoadedKeyNoPut ==
    /\ [](\A p \in Procs :
            /\ LoadedKey(p) =>
                   /\ puts[p] = <<>>
                   /\ pc[p] # "put"
                   /\ store[pem_key(contact[p])] = Some(to_pem(from_key(acme_key[p].pri)))
            /\ \A k \in 1..Len(puts[p]) : puts[p][k].handle = pem_key(contact[p]))
    /\ [][/\ \A h \in Handles : store[h] # None => store'[h] # None
          /\ (\E p \in Procs : LoadedKey(p)) => store' = store
          /\ store' # store =>
                \E p \in Procs :
                    /\ pc[p] = "put" /\ is_new[p]
                    /\ \A h \in Handles :
                           h # pem_key(contact[p]) => store'[h] = store[h]]_vars

\* C14 witness: a call that loaded its key has returned, the store as it was
C14_Witness ==
    \E p \in Procs :
        /\ Returned(p) /\ LoadedKey(p) /\ result[p][1].ok
        /\ puts[p] = <<>>
        /\ store[pem_key(contact[p])] = Some(to_pem(acme_key[p]))

\* C15: from_url sends at most three GETs and none after a success or a 400; it
\* returns a Directory exactly when its last GET got a success status and a body
\* that decodes to a directory document, the decode error when the body of a
\* success response does not decode, the Call error of the last response when the
\* attempts failed; it makes no get and no put on persistence.
C15_DirectoryFetch ==
    /\ Len(dir_gets) <= MaxAttempts
    /\ \A k \in 1..(Len(dir_gets) - 1) : Transient(dir_gets[k].status)
    /\ \A k \in 1..Len(dir_gets) : dir_gets[k].url = dir_url
    /\ dir_pc = "fetch" => dir_result = None
                           /\ Len(dir_gets) < MaxAttempts
                           /\ \A k \in 1..Len(dir_gets) : Transient(dir_gets[k].status)
    /\ dir_pc = "done" =>
           LET last == dir_gets[Len(dir_gets)]
               good == last.status \in SuccessStatuses
           IN  /\ dir_result # None
               /\ dir_result[1].ok <=> (good /\ last.body = DirBody)
               /\ dir_result[1].ok => dir_result[1].val = Directory(ApiDirectory)
               /\ (good /\ last.body # DirBody) =>
                      dir_result[1] = Err("Json", [text |-> "expected value"])
               /\ ~good =>
                      /\ dir_result[1] = Err("Call", CallMsg(last.status, last.body))
                      /\ Len(dir_gets) = MaxAttempts \/ last.status = BadRequest
    /\ dir_pc \in {"fetch", "done"} =>
           /\ reads = 0
           /\ store = [h \in Handles |-> None]
           /\ \A p \in Procs : puts[p] = <<>>

\* C15 witness: from_url failed to decode the body of its third GET
C15_Witness ==
    /\ dir_pc = "done" /\ Len(dir_gets) = 3
    /\ dir_gets[3].status = 200 /\ dir_gets[3].body = JsonBody
    /\ ~dir_result[1].ok /\ dir_result[1].kind = "Json"

\* the statuses of the POSTs of the call of p so far, and the last of them
PostStatus(p, k) == posts[p][k].status
LastPostStatus(p) == posts[p][Len(posts[p])].status

\* C17: the retry_call of dir.rs:84 sends a request only after transient failures
\* and never more than three; a transient failure (404 as well as 500) before the
\* third request leads to the next attempt; it returns Ok when the last response is
\* a success, and the Call error of the last response when that is a 400 or the
\* third failure.
C17_RetryCallRequests ==
    \A p \in Procs :
        /\ Len(posts[p]) <= MaxAttempts
        /\ \A k \in 1..(Len(posts[p]) - 1) : Transient(PostStatus(p, k))
        /\ (posts[p] # <<>> /\ LastFrom(p, "POST")) =>
               IF LastPostStatus(p) \in SuccessStatuses
               THEN /\ pc[p] \in {"put", "done"}
                    /\ result[p][1].ok \/ result[p][1].kind # "Call"
               ELSE IF LastPostStatus(p) = BadRequest \/ Len(posts[p]) = MaxAttempts
               THEN /\ Returned(p)
                    /\ result[p] = Some(Err("Call", CallMsg(LastPostStatus(p),
                                                           lastRes[p][1].res.body)))
               ELSE /\ pc[p] = "new_nonce"
                    /\ builds[p] = Len(posts[p]) + 1
                    /\ result[p] = None

\* C17 witness: two 404 responses were retried and the third POST succeeded
C17_Witness ==
    \E p \in Procs :
        /\ Len(posts[p]) = 3 /\ Returned(p)
        /\ PostStatus(p, 1) = 404 /\ PostStatus(p, 2) = 404 /\ PostStatus(p, 3) = 201
        /\ result[p][1].ok

\* the closure of dir.rs:84 has just returned an error to retry_call: its
\* new_nonce is over and has left no request to send
BuilderFailed(p) ==
    /\ LastFrom(p, "HEAD")
    /\ i_nonce[p] = 0
    /\ req[p] = None

\* the error the closure returns for the last new-nonce response
BuilderError(p) ==
    LET res == lastRes[p][1].res
    IN  IF res.status \notin SuccessStatuses
        THEN Err("Call", CallMsg(res.status, res.body))
        ELSE IF res.nonce = None THEN MissingHeader("replay-nonce")
        ELSE Err("Other", [text |-> "sign failed"])

\* C18: when the closure handed to retry_call returns an error (the nonce fetch
\* or the signing failed), the call has returned that error: no request was sent
\* for that attempt and the closure is not invoked again, at any attempt; the
\* closure has been invoked once for each request sent, and once more while the
\* next request is being built.
C18_BuilderErrorReturned ==
    \A p \in Procs :
        /\ BuilderFailed(p) =>
               /\ Returned(p)
               /\ result[p] = Some(BuilderError(p))
               /\ Len(posts[p]) = builds[p] - 1
               /\ builds[p] <= MaxAttempts
        /\ pc[p] \in {"new_nonce", "post"} => builds[p] = Len(posts[p]) + 1
        /\ pc[p] \in {"put", "done"} =>
               builds[p] \in {Len(posts[p]), Len(posts[p]) + 1}
        /\ (builds[p] = Len(posts[p]) + 1 /\ pc[p] = "done") => BuilderFailed(p)

\* C18 witness: the signing failed in the first attempt, two attempts unused
C18_Witness ==
    \E p \in Procs :
        /\ Returned(p) /\ BuilderFailed(p)
        /\ builds[p] = 1 /\ posts[p] = <<>> /\ heads[p] = 1
        /\ lastRes[p][1].res.nonce # None
        /\ result[p] = Some(Err("Other", [text |-> "sign failed"]))

\* the requests a call has sent stay within the caps of its retry loops
RequestsBounded(p) ==
    /\ Len(posts[p]) <= MaxAttempts
    /\ builds[p] <= MaxAttempts
    /\ i_nonce[p] < MaxAttempts
    /\ heads[p] <= MaxAttempts * builds[p]
    /\ heads[p] <= MaxAttempts * MaxAttempts
    /\ pc[p] = "new_nonce" => heads[p] <= MaxAttempts * (builds[p] - 1) + i_nonce[p]

\* C19: a call whose requests are all answered returns, and it sends at most
\* three POSTs to new-account and at most three requests to new-nonce for each
\* attempt, nine in total.
C19_TerminatesBounded ==
    /\ [](\A p \in Procs : RequestsBounded(p))
    /\ \A p \in SeqProcs : (pc[p] # "idle") ~> Returned(p)

\* the call of thread p is running
Running(p) == pc[p] # "idle"

\* the locals of the call of thread p
Locals(p) ==
    <<pc[p], call_id[p], contact[p], is_new[p], acme_key[p], i_account[p],
      i_nonce[p], req[p], lastRes[p], builds[p], heads[p], nonces[p], posts[p],
      puts[p], result[p], got_pem[p]>>

\* what the call of thread p returns going by its own key and the responses it
\* received itself
OutcomeAlone(p) ==
    LET res == lastRes[p][1].res
        step == retry_call(i_account[p], res)
    IN  IF puts[p] # <<>> /\ ~puts[p][Len(puts[p])].ok
        THEN Err("Persist", [text |-> "put failed"])
        ELSE IF step.out.ok
        THEN account_finish(acme_key[p], is_new[p], contact[p], res).result
        ELSE step.out

\* two calls for different contacts are running on the two threads
Concurrent(p, q) ==
    /\ p # q
    /\ Running(p) /\ Running(q)
    /\ contact[p] # contact[q]

\* the calls of p and q keep their keys, nonces and handles apart
Apart(p, q) ==
    /\ acme_key[p].pri # acme_key[q].pri
    /\ \A k \in 1..Len(posts[p]) :
           /\ posts[p][k].nonce[1] = call_id[p]
           /\ posts[p][k].signer = acme_key[p].pri
           /\ \A l \in 1..Len(posts[q]) :
                  /\ posts[p][k].nonce # posts[q][l].nonce
                  /\ posts[p][k].signer # posts[q][l].signer
    /\ \A k \in 1..Len(puts[p]) :
           /\ puts[p][k].handle = pem_key(contact[p])
           /\ puts[p][k].handle # pem_key(contact[q])
           /\ puts[p][k].pem = to_pem(acme_key[p])

\* C16: calls for different contacts that run concurrently do not interfere: a
\* step of one leaves the locals of the other and the key stored for the other's
\* contact as they were, each call returns what its own key and its own
\* responses give, a key is stored only under the handle of the contact it was
\* generated for, and no nonce or key of one call is in a request of the other.
C16_ConcurrentCallsApart ==
    /\ [](\A p, q \in Procs :
              Concurrent(p, q) =>
                  /\ Apart(p, q)
                  /\ (Returned(p) /\ LastFrom(p, "POST")) =>
                         result[p] = Some(OutcomeAlone(p)))
    /\ [](\A c \in Contacts :
              store[pem_key(c)] # None =>
                  <<store[pem_key(c)][1].der, c>> \in generatedFor)
    /\ [][\A p, q \in Procs :
              (Concurrent(p, q) /\ <<pc[q], heads[q]>>' # <<pc[q], heads[q]>>) =>
                  /\ Locals(p)' = Locals(p)
                  /\ store'[pem_key(contact[p])] = store[pem_key(contact[p])]]_vars

\* C16 witness: two calls for different contacts have run side by side to the
\* end, each with a new key it has saved
C16_Witness ==
    \E p, q \in Procs :
        /\ Concurrent(p, q)
        /\ Returned(p) /\ Returned(q)
        /\ result[p][1].ok /\ result[q][1].ok
        /\ is_new[p] /\ is_new[q]
        /\ store[pem_key(contact[p])] = Some(to_pem(acme_key[p]))
        /\ store[pem_key(contact[q])] = Some(to_pem(acme_key[q]))

\* the i-th and the j-th call to return were for one contact, both found no key
\* saved for it and both succeeded: they raced
Raced(i, j) ==
    /\ i < j
    /\ returned[i].contact = returned[j].contact
    /\ returned[i].ok /\ returned[j].ok
    /\ returned[i].is_new /\ returned[j].is_new

\* C20: once two calls for one contact that both started with no key saved have
\* both returned successfully, the two returned keys differ and the store holds
\* one of them, the one put last (every put that succeeds leaves the putter's key
\* in the store); every call for that contact started after the two returned
\* runs with, and returns, the stored key.
C20_SameContactRace ==
    /\ [](\A i, j \in 1..Len(returned) :
              Raced(i, j) =>
                  LET c == returned[i].contact
                      st == store[pem_key(c)]
                  IN  /\ returned[i].pri # returned[j].pri
                      /\ st # None
                      /\ st[1].der \in {returned[i].pri, returned[j].pri}
                      /\ \A k \in 1..Len(returned) :
                             (/\ returned[k].contact = c
                              /\ returned[k].id > returned[j].calls
                              /\ returned[k].ok) =>
                                 /\ returned[k].pri = st[1].der
                                 /\ ~returned[k].is_new
                      /\ \A r \in Procs :
                             (/\ Running(r)
                              /\ contact[r] = c
                              /\ call_id[r] > returned[j].calls) =>
                                 /\ acme_key[r].pri = st[1].der
                                 /\ ~is_new[r])
    /\ [][\A p \in Procs :
              (/\ Len(puts'[p]) = Len(puts[p]) + 1
               /\ puts'[p][Len(puts'[p])].ok) =>
                  store'[pem_key(contact[p])] = Some(to_pem(acme_key[p]))]_vars

\* C20 witness: two calls raced, the store holds the key of the one that
\* returned first, and a call started after both has returned that key
C20_Witness ==
    \E i, j, k \in 1..Len(returned) :
        /\ Raced(i, j)
        /\ store[pem_key(returned[i].contact)][1].der = returned[i].pri
        /\ returned[k].contact = returned[i].contact
        /\ returned[k].id > returned[j].calls
        /\ returned[k].ok
        /\ returned[k].pri = returned[i].pri

====
